---------------------------- MODULE Spec2Model ----------------------------
(* A model of the printavo client: the request-execution engine            *)
(* (Printavo::get / post / execute, src/src/lib.rs), the client builder    *)
(* (PrintavoBuilder, src/src/lib.rs), the pagination envelope (Page,       *)
(* src/src/page.rs) and the list/search parameter builders                 *)
(* (src/src/orders.rs).                                                    *)
(*                                                                         *)
(* Option<T> values are sequences: None is <<>> and Some(x) is <<x>>.      *)
EXTENDS Integers, Sequences, FiniteSets, TLC

None == <<>>
Some(x) == <<x>>

(***************************************************************************)
(* Program constants                                                       *)
(***************************************************************************)
MAX_RETRIES == 3
UNAUTHORIZED == 401

(***************************************************************************)
(* Bounds of the model                                                     *)
(***************************************************************************)
\* extra headers added to one builder
MaxHeaders == 2
\* items of one served page
MaxItems == 3
\* borrowing passes over one page
MaxPasses == 2

(***************************************************************************)
(* Input sets                                                              *)
(***************************************************************************)
\* the credential states a built client can hold (enum AuthState)
AuthStates ==
    { [type |-> "None"],
      [type |-> "TokenAuth", email |-> "me@x", token |-> "s3cret"] }

\* caller-supplied query parameter bags
CallerParams ==
    { <<>>,
      << <<"page", "2">> >>,
      << <<"email", "other@x">>, <<"page", "2">> >> }

\* body kinds of a reqwest request: no body, an in-memory (json) body that
\* can be cloned, a streaming body that cannot
Bodies == {"none", "json", "stream"}

\* the statuses the remote service answers with
Statuses == {200, 401, 403, 500}

\* what one send() can produce: Ok(response) with any status, or Err(e)
\* where e carries a status or none
SendOutcomes ==
    [kind : {"Ok"}, status : {Some(s) : s \in Statuses}]
        \cup [kind : {"Err"}, status : {Some(401), Some(500), None}]

\* what the response decoder can produce from a response it was given
DecodeOutcomes ==
    { [kind |-> "Ok", value |-> "decoded"],
      [kind |-> "Err", error |-> "Http", status |-> None],
      [kind |-> "Err", error |-> "Json", status |-> None] }

VARIABLES
    \* ---- request-execution engine ----
    auth_state,      \* Printavo.auth_state
    op,              \* the public operation in progress
    pc,              \* position inside it
    request,         \* execute's `request` (a RequestBuilder)
    retry_request,   \* execute's `retry_request`
    retries,         \* execute's `retries`
    result,          \* execute's `result`, None before the first send
    sends,           \* the requests handed to send(), in order
    outcomes,        \* the result of each send(), in order
    exec_ret,        \* what execute returned, None while it has not
    ret,             \* what the public operation returned
    decoder_ran,     \* whether from_response was run
    descriptor,      \* the request as it was passed to execute
    \* ---- client builder ----
    builder,         \* the PrintavoBuilder being configured
    bpc,             \* "configuring", then "returned" or "panicked"
    build_ret,       \* what the builder chain returned, None while it has not
    \* ---- pagination envelope ----
    served,          \* the {meta, data} document the service answered with
    page,            \* the decoded Page, None when there is none (or moved)
    page_pc,         \* "none", "live", "moved" or "error"
    owned_iter,      \* what the consuming iterator still holds
    owned_yield,     \* what the consuming iterator has yielded
    ref_pos,         \* position of the borrowing iterator, None when idle
    ref_yield,       \* what the borrowing iterator has yielded in this pass
    passes,          \* borrowing passes started
    \* ---- order parameter builders ----
    params,          \* the ListOrdersBuilder / SearchOrdersBuilder
    last_set,        \* per field, the value of the last setter call
    bag              \* the parameter bag serialized by send()

execVars ==
    << auth_state, op, pc, request, retry_request, retries, result, sends,
       outcomes, exec_ret, ret, decoder_ran, descriptor >>

builderVars == << builder, bpc, build_ret >>

pageVars ==
    << served, page, page_pc, owned_iter, owned_yield, ref_pos, ref_yield,
       passes >>

ordersVars == << params, last_set, bag >>

vars == << execVars, builderVars, pageVars, ordersVars >>

(***************************************************************************)
(* reqwest::RequestBuilder as used by the engine                           *)
(***************************************************************************)
\* RequestBuilder::query: appends the pairs; a builder already in the error
\* state stays as it is
Query(req, pairs) ==
    IF req.error THEN req ELSE [req EXCEPT !.query = @ \o pairs]

\* RequestBuilder::try_clone: None for a builder in the error state or with a
\* streaming body
try_clone(req) ==
    IF req.error \/ req.body = "stream" THEN None ELSE Some(req)

\* the two query parameters of token authentication
TokenQuery(email, token) == << <<"email", email>>, <<"token", token>> >>

\* the request with the credentials of `auth` attached
WithAuth(auth, req) ==
    IF auth.type = "None" THEN req
    ELSE Query(req, TokenQuery(auth.email, auth.token))

\* `request.try_clone().unwrap()` aborts when there is nothing to unwrap
UnwrapPanics(auth, req) ==
    auth.type = "TokenAuth" /\ try_clone(req) = None

\* variant: a snapshot is taken whatever the credential
SnapshotFor_Always(auth, req) == try_clone(req)

\* the snapshot taken before credentials are attached
SnapshotFor(auth, req) ==
    IF auth.type = "None" THEN None ELSE try_clone(req)

\* variant: only a delivered response has a status
StatusOf_OkOnly(res) == IF res.kind = "Ok" THEN res.status ELSE None

\* the status execute reads off a send result: the response's, or the one
\* the error carries
StatusOf(res) == res.status

\* variant: every 4xx status counts
IsUnauthorized_Any4xx(status) ==
    status # None /\ status[1] >= 400 /\ status[1] < 500

\* `if let Some(StatusCode::UNAUTHORIZED) = status`
IsUnauthorized(status) == status = Some(UNAUTHORIZED)

\* variant: the budget test is off by one
ShouldRetry_OffByOne(status, retry, n) ==
    /\ IsUnauthorized(status)
    /\ retry # None
    /\ n <= MAX_RETRIES

\* the retry decision
ShouldRetry(status, retry, n) ==
    /\ IsUnauthorized(status)
    /\ retry # None
    /\ n < MAX_RETRIES

\* variant: the next iteration goes on from the request already sent
NextRequest_KeepAttached(retry, attached) == attached

\* the request the next iteration starts from: the snapshot
NextRequest(retry, attached) == retry[1]

\* `Ok(result?)`: a response is returned as it is, a reqwest error becomes
\* Error::Http
Returned(res) ==
    IF res.kind = "Ok"
    THEN [kind |-> "Ok", status |-> res.status]
    ELSE [kind |-> "Err", error |-> "Http", status |-> res.status]

\* the outcomes send() can produce for a request: a builder in the error
\* state fails without reaching the service
OutcomesOf(req) ==
    IF req.error THEN { [kind |-> "Err", status |-> None] } ELSE SendOutcomes

NoRequest == [query |-> <<>>, body |-> "none", error |-> FALSE]

(***************************************************************************)
(* The request-execution engine                                            *)
(***************************************************************************)
InitExec ==
    /\ auth_state \in AuthStates
    /\ op = "none"
    /\ pc = "idle"
    /\ request = NoRequest
    /\ retry_request = None
    /\ retries = 0
    /\ result = None
    /\ sends = <<>>
    /\ outcomes = <<>>
    /\ exec_ret = None
    /\ ret = None
    /\ decoder_ran = FALSE
    /\ descriptor = NoRequest

\* entering execute with `req`
Enter(name, req) ==
    /\ op' = name
    /\ request' = req
    /\ descriptor' = req
    /\ retries' = 0
    /\ pc' = "loop"
    /\ UNCHANGED << auth_state, retry_request, result, sends, outcomes,
                    exec_ret, ret, decoder_ran >>
    /\ UNCHANGED << builderVars, pageVars, ordersVars >>

\* absolute_url failed: the operation returns Error::Url before execute
UrlError(name) ==
    /\ op' = name
    /\ ret' = Some([kind |-> "Err", error |-> "Url", status |-> None])
    /\ pc' = "done"
    /\ UNCHANGED << auth_state, request, retry_request, retries, result,
                    sends, outcomes, exec_ret, decoder_ran, descriptor >>
    /\ UNCHANGED << builderVars, pageVars, ordersVars >>

\* Printavo::get / get_with_headers / _get_with_headers
Get ==
    /\ pc = "idle"
    /\ \E url_ok \in BOOLEAN, parameters \in CallerParams, ser_ok \in BOOLEAN :
         IF ~url_ok THEN UrlError("get")
         ELSE Enter("get", [query |-> IF ser_ok THEN parameters ELSE <<>>,
                            body |-> "none", error |-> ~ser_ok])

\* Printavo::post / _post
Post ==
    /\ pc = "idle"
    /\ \E url_ok \in BOOLEAN, body \in {"none", "json"} :
         IF ~url_ok THEN UrlError("post")
         ELSE Enter("post", [query |-> <<>>, body |-> body, error |-> FALSE])

\* Printavo::execute called directly with any RequestBuilder
Execute ==
    /\ pc = "idle"
    /\ \E parameters \in CallerParams, body \in Bodies, err \in BOOLEAN :
         Enter("execute", [query |-> IF err THEN <<>> ELSE parameters,
                           body |-> body, error |-> err])

\* the head of the loop: snapshot and credential attachment
Attach ==
    /\ pc = "loop"
    /\ IF UnwrapPanics(auth_state, request)
       THEN /\ pc' = "panicked"
            /\ UNCHANGED << request, retry_request >>
       ELSE /\ retry_request' = SnapshotFor(auth_state, request)
            /\ request' = WithAuth(auth_state, request)
            /\ pc' = "send"
    /\ UNCHANGED << auth_state, op, retries, result, sends, outcomes,
                    exec_ret, ret, decoder_ran, descriptor >>
    /\ UNCHANGED << builderVars, pageVars, ordersVars >>

\* request.send().await
Send ==
    /\ pc = "send"
    /\ \E o \in OutcomesOf(request) :
         /\ result' = Some(o)
         /\ outcomes' = Append(outcomes, o)
    /\ sends' = Append(sends, request)
    /\ pc' = "classify"
    /\ UNCHANGED << auth_state, op, request, retry_request, retries,
                    exec_ret, ret, decoder_ran, descriptor >>
    /\ UNCHANGED << builderVars, pageVars, ordersVars >>

\* the 401 branch: one more iteration from the snapshot
Retry ==
    /\ pc = "classify"
    /\ ShouldRetry(StatusOf(result[1]), retry_request, retries)
    /\ retries' = retries + 1
    /\ request' = NextRequest(retry_request, request)
    /\ pc' = "loop"
    /\ UNCHANGED << auth_state, op, retry_request, result, sends, outcomes,
                    exec_ret, ret, decoder_ran, descriptor >>
    /\ UNCHANGED << builderVars, pageVars, ordersVars >>

\* return Ok(result?)
Return ==
    /\ pc = "classify"
    /\ ~ShouldRetry(StatusOf(result[1]), retry_request, retries)
    /\ exec_ret' = Some(Returned(result[1]))
    /\ IF op = "execute" \/ Returned(result[1]).kind = "Err"
       THEN /\ ret' = Some(Returned(result[1]))
            /\ pc' = "done"
       ELSE /\ ret' = ret
            /\ pc' = "decode"
    /\ UNCHANGED << auth_state, op, request, retry_request, retries, result,
                    sends, outcomes, decoder_ran, descriptor >>
    /\ UNCHANGED << builderVars, pageVars, ordersVars >>

\* R::from_response(response) in get / post
FromResponse ==
    /\ pc = "decode"
    /\ \E d \in DecodeOutcomes : ret' = Some(d)
    /\ decoder_ran' = TRUE
    /\ pc' = "done"
    /\ UNCHANGED << auth_state, op, request, retry_request, retries, result,
                    sends, outcomes, exec_ret, descriptor >>
    /\ UNCHANGED << builderVars, pageVars, ordersVars >>

NextExec ==
    \/ Get
    \/ Post
    \/ Execute
    \/ Attach
    \/ Send
    \/ Retry
    \/ Return
    \/ FromResponse

(***************************************************************************)
(* Properties of the request-execution engine                              *)
(***************************************************************************)
Last(seq) == seq[Len(seq)]

\* the number of pairs of a query string with the given key
RECURSIVE KeyCount(_, _)
KeyCount(q, key) ==
    IF q = <<>> THEN 0
    ELSE (IF Head(q)[1] = key THEN 1 ELSE 0) + KeyCount(Tail(q), key)

\* the values a query string gives the key
ValuesOf(q, key) == { q[i][2] : i \in { j \in 1..Len(q) : q[j][1] = key } }

HasCredentialKeys(q) == KeyCount(q, "email") + KeyCount(q, "token") > 0

AllUnauthorized == \A i \in 1..Len(outcomes) : outcomes[i].status = Some(401)

\* execute returned exactly what the given send produced
ReturnedOutcome(o) ==
    /\ exec_ret # None
    /\ exec_ret[1].kind = o.kind
    /\ exec_ret[1].status = o.status

\* C1: under TokenAuth, when every send is answered with 401, execute returns
\* after exactly 4 sends; the retry counter never exceeds 3 and there is
\* never a 5th send.
C1_RetryBound ==
    /\ retries <= 3
    /\ Len(sends) <= 4
    /\ (auth_state.type = "TokenAuth" /\ AllUnauthorized /\ exec_ret # None)
          => (Len(sends) = 4 /\ retries = 3)
    /\ (Len(sends) = 4 /\ Len(outcomes) = 4) => pc \notin {"loop", "send"}

C1_Witness ==
    /\ auth_state.type = "TokenAuth"
    /\ AllUnauthorized
    /\ exec_ret # None
    /\ Len(sends) = 4

\* C2: an operation whose last send ended with a failure status (4xx / 5xx,
\* delivered as a response or as an error) returns Error::Http carrying that
\* status, and the response decoder is not run on it.
C2_FailureIsTransportError ==
    ( /\ pc = "done"
      /\ outcomes # <<>>
      /\ Last(outcomes).status # None
      /\ Last(outcomes).status[1] >= 400 )
    => ( /\ exec_ret = Some([kind |-> "Err", error |-> "Http",
                             status |-> Last(outcomes).status])
         /\ ~decoder_ran )

\* C3: the loop goes on only after a 401, stops at the first send whose
\* status is not 401 and returns the outcome of that send; 401 then 200
\* under TokenAuth is 2 sends and the 200 response.
C3_ShortCircuit ==
    /\ \A i \in 1..(Len(outcomes) - 1) : outcomes[i].status = Some(401)
    /\ (pc \in {"loop", "send"} /\ outcomes # <<>>)
          => Last(outcomes).status = Some(401)
    /\ exec_ret # None =>
          /\ Len(sends) = Len(outcomes)
          /\ ReturnedOutcome(Last(outcomes))
          /\ auth_state.type = "TokenAuth"
                => (Last(outcomes).status # Some(401) \/ Len(sends) = 4)
    /\ ( /\ auth_state.type = "TokenAuth"
         /\ Len(outcomes) >= 2
         /\ outcomes[1].status = Some(401)
         /\ outcomes[2].status = Some(200) )
          => (Len(sends) = 2 /\ (pc # "classify" => ReturnedOutcome(outcomes[2])))

C3_Witness ==
    /\ auth_state.type = "TokenAuth"
    /\ Len(sends) = 2
    /\ outcomes[1].status = Some(401)
    /\ outcomes[2] = [kind |-> "Ok", status |-> Some(200)]
    /\ exec_ret = Some([kind |-> "Ok", status |-> Some(200)])

\* C4: whatever the credential, a first send whose status is not 401, or
\* that has no status, is the only send, and its outcome is what execute
\* returns.
C4_Only401Retries ==
    (outcomes # <<>> /\ outcomes[1].status # Some(401))
    => ( /\ Len(sends) = 1
         /\ Len(outcomes) = 1
         /\ retries = 0
         /\ pc \in {"classify", "decode", "done"}
         /\ pc # "classify" => ReturnedOutcome(outcomes[1]) )

C4_Witness ==
    /\ auth_state.type = "TokenAuth"
    /\ retry_request # None
    /\ outcomes # <<>>
    /\ outcomes[1].status \in {Some(403), Some(500), None}
    /\ exec_ret # None

\* C5: for a request that came without email / token parameters, no send
\* carries either of them under credential None, and under TokenAuth every
\* send, the first and each retry, carries exactly one email with the
\* identity and exactly one token with the secret.
C5_CredentialAttachment ==
    ~HasCredentialKeys(descriptor.query) =>
        \A i \in 1..Len(sends) :
            IF auth_state.type = "None"
            THEN ~HasCredentialKeys(sends[i].query)
            ELSE /\ KeyCount(sends[i].query, "email") = 1
                 /\ KeyCount(sends[i].query, "token") = 1
                 /\ ValuesOf(sends[i].query, "email") = {auth_state.email}
                 /\ ValuesOf(sends[i].query, "token") = {auth_state.token}

C5_Witness ==
    /\ auth_state.type = "TokenAuth"
    /\ ~HasCredentialKeys(descriptor.query)
    /\ Len(sends) = 4
    /\ KeyCount(sends[4].query, "token") = 1

\* C7: execute never aborts the process, whatever the credential and the
\* request.
C7_ExecuteNeverAborts == pc # "panicked"

\* C10: with credential None there is no snapshot and no retry: a 401 on the
\* first send is returned after that one send; only TokenAuth retries.
C10_UnauthenticatedNeverRetries ==
    /\ auth_state.type = "None" =>
          /\ retry_request = None
          /\ retries = 0
          /\ Len(sends) <= 1
          /\ (outcomes # <<>> /\ pc # "classify")
                => ReturnedOutcome(outcomes[1])
    /\ retries > 0 => auth_state.type = "TokenAuth"

C10_Witness ==
    /\ auth_state.type = "None"
    /\ Len(sends) = 1
    /\ outcomes[1].status = Some(401)
    /\ exec_ret # None
    /\ exec_ret[1].status = Some(401)

(***************************************************************************)
(* PrintavoBuilder                                                         *)
(***************************************************************************)
\* header values, as the bytes of the String: "a", "a\n", "\tb"
HeaderValues == { <<97>>, <<97, 10>>, <<9, 98>> }

\* base urls handed to base_url: one that parses and one that does not
BaseUrls == { [text |-> "https://x.test", valid |-> TRUE],
              [text |-> "::", valid |-> FALSE] }

\* `value.parse()` into a HeaderValue: every byte is a tab or a visible
\* character
ParsesAsHeaderValue(v) ==
    \A i \in 1..Len(v) : v[i] = 9 \/ (v[i] >= 32 /\ v[i] # 127)

\* PrintavoBuilder::default
DefaultBuilder ==
    [auth |-> [type |-> "None"], extra_headers |-> <<>>, base_url |-> None,
     version |-> "V1"]

\* the AuthState build makes of the builder's Auth
AuthStateOf(auth) ==
    IF auth.type = "None" THEN [type |-> "None"]
    ELSE [type |-> "TokenAuth", email |-> auth.email, token |-> auth.token]

\* `value.parse().unwrap()` over the extra headers aborts on the first value
\* that does not parse
HeaderUnwrapPanics(headers) ==
    \E i \in 1..Len(headers) : ~ParsesAsHeaderValue(headers[i][2])

\* the client build returns
BuiltClient(b) ==
    [kind |-> "Ok",
     auth_state |-> AuthStateOf(b.auth),
     headers |-> b.extra_headers,
     base_url |-> IF b.base_url = None THEN "https://www.printavo.com"
                  ELSE b.base_url[1],
     version |-> b.version]

InitBuilder ==
    /\ builder = DefaultBuilder
    /\ bpc = "configuring"
    /\ build_ret = None

BuilderFrame == UNCHANGED << execVars, pageVars, ordersVars >>

\* PrintavoBuilder::token_auth
token_auth ==
    /\ bpc = "configuring"
    /\ \E email \in {"me@x"}, token \in {"s3cret", "other"} :
         builder' = [builder EXCEPT
                        !.auth = [type |-> "Token", email |-> email,
                                  token |-> token]]
    /\ UNCHANGED << bpc, build_ret >>
    /\ BuilderFrame

\* PrintavoBuilder::base_url: an Err ends the chain
base_url ==
    /\ bpc = "configuring"
    /\ \E u \in BaseUrls :
         IF u.valid
         THEN /\ builder' = [builder EXCEPT !.base_url = Some(u.text)]
              /\ UNCHANGED << bpc, build_ret >>
         ELSE /\ build_ret' = Some([kind |-> "Err", error |-> "Http"])
              /\ bpc' = "returned"
              /\ UNCHANGED builder
    /\ BuilderFrame

\* PrintavoBuilder::add_header
add_header ==
    /\ bpc = "configuring"
    /\ Len(builder.extra_headers) < MaxHeaders
    /\ \E value \in HeaderValues :
         builder' = [builder EXCEPT
                        !.extra_headers = Append(@, <<"x-extra", value>>)]
    /\ UNCHANGED << bpc, build_ret >>
    /\ BuilderFrame

\* PrintavoBuilder::version
version ==
    /\ bpc = "configuring"
    /\ builder' = [builder EXCEPT !.version = "V1"]
    /\ UNCHANGED << bpc, build_ret >>
    /\ BuilderFrame

\* PrintavoBuilder::build
build ==
    /\ bpc = "configuring"
    /\ IF HeaderUnwrapPanics(builder.extra_headers)
       THEN /\ bpc' = "panicked"
            /\ UNCHANGED build_ret
       ELSE /\ bpc' = "returned"
            /\ \E client_ok \in BOOLEAN :
                 build_ret' = IF client_ok THEN Some(BuiltClient(builder))
                              ELSE Some([kind |-> "Err", error |-> "Http"])
    /\ UNCHANGED builder
    /\ BuilderFrame

NextBuilder ==
    \/ token_auth
    \/ base_url
    \/ add_header
    \/ version
    \/ build

\* C6: the builder chain ends with a client or a construction error; with an
\* extra header whose value is no valid header value, build returns a
\* construction error and does not abort.
C6_BuildReturnsErrorValue ==
    /\ bpc # "panicked"
    /\ (bpc = "returned" /\ HeaderUnwrapPanics(builder.extra_headers))
          => (build_ret # None /\ build_ret[1].kind = "Err")

(***************************************************************************)
(* Page<T> and its decoding                                                *)
(***************************************************************************)
\* the orders a page can hold, by id
Items == {1, 2}

\* sequences over S of length at most n
SeqsUpTo(S, n) == UNION { [1..k -> S] : k \in 0..n }

\* the meta objects the service answers with; per_page 256 does not fit u8,
\* and total_pages need not agree with total_count / per_page
Metas ==
    [page : {2}, per_page : {10, 256}, total_count : {25}, total_pages : {3, 7}]

\* PageMeta's field types: page, total_count, total_pages are u32 (every
\* served value is below 2^32, so only the sign is tested) and per_page is u8
FitsPageMeta(m) ==
    /\ m.page >= 0
    /\ m.per_page \in 0..255
    /\ m.total_count >= 0
    /\ m.total_pages >= 0

\* from_response for Page<T>: the derived Deserialize takes `meta` and `data`
\* as they are in the document, or fails
from_response(doc) ==
    IF FitsPageMeta(doc.meta)
    THEN [kind |-> "Ok", value |-> [meta |-> doc.meta, data |-> doc.data]]
    ELSE [kind |-> "Err", error |-> "Json"]

\* variant: the first item is left out
into_iter_SkipFirst(p) == IF p.data = <<>> THEN <<>> ELSE Tail(p.data)

\* impl IntoIterator for Page<T>: self.data.into_iter()
into_iter(p) == p.data

\* impl IntoIterator for &Page<T>: the item self.data.iter() yields at
\* position i (from 0)
iter_at(p, i) == p.data[i + 1]

NoDoc == [meta |-> [page |-> 0, per_page |-> 0, total_count |-> 0,
                    total_pages |-> 0],
          data |-> <<>>]

InitPage ==
    /\ served = NoDoc
    /\ page = None
    /\ page_pc = "none"
    /\ owned_iter = <<>>
    /\ owned_yield = <<>>
    /\ ref_pos = None
    /\ ref_yield = <<>>
    /\ passes = 0

PageFrame == UNCHANGED << execVars, builderVars, ordersVars >>

\* a list / search response is decoded into a Page
DecodePage ==
    /\ page_pc = "none"
    /\ \E m \in Metas, d \in SeqsUpTo(Items, MaxItems) :
         LET doc == [meta |-> m, data |-> d]
             r == from_response(doc)
         IN /\ served' = doc
            /\ IF r.kind = "Ok"
               THEN page' = Some(r.value) /\ page_pc' = "live"
               ELSE page' = None /\ page_pc' = "error"
    /\ UNCHANGED << owned_iter, owned_yield, ref_pos, ref_yield, passes >>
    /\ PageFrame

\* `for item in page`: the page is moved into the consuming iterator
IntoIterOwned ==
    /\ page_pc = "live"
    /\ ref_pos = None
    /\ owned_iter' = into_iter(page[1])
    /\ page' = None
    /\ page_pc' = "moved"
    /\ UNCHANGED << served, owned_yield, ref_pos, ref_yield, passes >>
    /\ PageFrame

\* one step of the consuming iterator
OwnedNext ==
    /\ page_pc = "moved"
    /\ owned_iter # <<>>
    /\ owned_yield' = Append(owned_yield, Head(owned_iter))
    /\ owned_iter' = Tail(owned_iter)
    /\ UNCHANGED << served, page, page_pc, ref_pos, ref_yield, passes >>
    /\ PageFrame

\* `for item in &page`: a borrowing pass starts
IterRef ==
    /\ page_pc = "live"
    /\ ref_pos = None
    /\ passes < MaxPasses
    /\ ref_pos' = Some(0)
    /\ ref_yield' = <<>>
    /\ passes' = passes + 1
    /\ UNCHANGED << served, page, page_pc, owned_iter, owned_yield >>
    /\ PageFrame

\* one step of the borrowing iterator; at the end the borrow is released
RefNext ==
    /\ page_pc = "live"
    /\ ref_pos # None
    /\ IF ref_pos[1] < Len(page[1].data)
       THEN /\ ref_yield' = Append(ref_yield, iter_at(page[1], ref_pos[1]))
            /\ ref_pos' = Some(ref_pos[1] + 1)
       ELSE /\ ref_pos' = None
            /\ UNCHANGED ref_yield
    /\ UNCHANGED << served, page, page_pc, owned_iter, owned_yield, passes >>
    /\ PageFrame

NextPage ==
    \/ DecodePage
    \/ IntoIterOwned
    \/ OwnedNext
    \/ IterRef
    \/ RefNext

\* C8: a decoded page holds the served meta and items as they were served,
\* whatever the iteration state; a borrowing pass yields the served items in
\* order and leaves the page as it was, and can be repeated; the consuming
\* iteration yields the served items in order, each once, all of them.
C8_PageRoundTrip ==
    /\ page_pc = "live" =>
          /\ page[1].meta = served.meta
          /\ page[1].data = served.data
          /\ ref_pos # None =>
                ref_yield = SubSeq(served.data, 1, ref_pos[1])
          /\ (ref_pos = None /\ passes > 0) => ref_yield = served.data
    /\ page_pc = "moved" =>
          /\ owned_yield \o owned_iter = served.data
          /\ owned_iter = <<>> => owned_yield = served.data
          /\ passes > 0 => ref_yield = served.data

C8_Witness ==
    /\ page_pc = "moved"
    /\ owned_iter = <<>>
    /\ Len(served.data) = MaxItems
    /\ owned_yield = served.data
    /\ served.data[1] # served.data[MaxItems]
    /\ passes = MaxPasses
    /\ served.meta.total_pages = 7

(***************************************************************************)
(* ListOrdersBuilder and SearchOrdersBuilder                               *)
(***************************************************************************)
\* the serialized fields of the two builders, in declaration order
ListKeys ==
    << "page", "per_page", "sort_column", "direction", "in_production_after",
       "in_production_before" >>

SearchKeys == << "page", "per_page", "query" >>

KeysOf(kind) == IF kind = "list" THEN ListKeys ELSE SearchKeys

KeySet(kind) == { KeysOf(kind)[i] : i \in 1..Len(KeysOf(kind)) }

\* the values the setters are called with
PageValues == {1, 2}
PerPageValues == {10, 100}
TextValues == {"id", ""}
Directions == {"Ascending", "Descending"}
DateTimes == { [year |-> 2022, month |-> 11, day |-> 1],
               [year |-> 2022, month |-> 11, day |-> 30] }

TwoDigits(n) == IF n < 10 THEN "0" \o ToString(n) ELSE ToString(n)

\* time::serde::iso8601 of a midnight UTC date-time
Iso8601(dt) ==
    "+00" \o ToString(dt.year) \o "-" \o TwoDigits(dt.month) \o "-"
        \o TwoDigits(dt.day) \o "T00:00:00.000000000Z"

\* the query-string form of params::Direction
DirectionParam(d) == IF d = "Ascending" THEN "asc" ELSE "desc"

\* the query-string value of a field that is set
Encode(key, v) ==
    CASE key \in {"page", "per_page"} -> ToString(v)
      [] key = "direction" -> DirectionParam(v)
      [] key \in {"in_production_after", "in_production_before"} -> Iso8601(v)
      [] OTHER -> v

\* variant: a field that is not set is written with an empty value
SerializeField_EmptyForNone(key, opt) ==
    IF opt = None THEN << <<key, "">> >> ELSE << <<key, Encode(key, opt[1])>> >>

\* one field under #[serde(skip_serializing_if = "Option::is_none")]
SerializeField(key, opt) ==
    IF opt = None THEN <<>> ELSE << <<key, Encode(key, opt[1])>> >>

\* the derived Serialize of a builder: its fields in declaration order, the
\* handler skipped
RECURSIVE SerializeFrom(_, _, _)
SerializeFrom(keys, fields, i) ==
    IF i > Len(keys) THEN <<>>
    ELSE SerializeField(keys[i], fields[keys[i]])
            \o SerializeFrom(keys, fields, i + 1)

Serialize(b) == SerializeFrom(KeysOf(b.kind), b.fields, 1)

\* ListOrdersBuilder::new / SearchOrdersBuilder::new
NewBuilder(kind) == [kind |-> kind, fields |-> [k \in KeySet(kind) |-> None]]

InitOrders ==
    /\ params = [kind |-> "none", fields |-> <<>>]
    /\ last_set = <<>>
    /\ bag = None

OrdersFrame == UNCHANGED << execVars, builderVars, pageVars >>

\* the assignment of a setter: self.<key> = Some(value.into())
SetField(key, v) ==
    /\ params' = [params EXCEPT !.fields[key] = Some(v)]
    /\ last_set' = [last_set EXCEPT ![key] = Some(v)]

\* OrdersHandler::list
orders_list ==
    /\ params.kind = "none"
    /\ params' = NewBuilder("list")
    /\ last_set' = [k \in KeySet("list") |-> None]
    /\ UNCHANGED bag
    /\ OrdersFrame

\* OrdersHandler::search
orders_search ==
    /\ params.kind = "none"
    /\ params' = NewBuilder("search")
    /\ last_set' = [k \in KeySet("search") |-> None]
    /\ UNCHANGED bag
    /\ OrdersFrame

\* ListOrdersBuilder::page
list_page ==
    /\ params.kind = "list"
    /\ bag = None
    /\ \E v \in PageValues : SetField("page", v)
    /\ UNCHANGED bag
    /\ OrdersFrame

\* ListOrdersBuilder::per_page
list_per_page ==
    /\ params.kind = "list"
    /\ bag = None
    /\ \E v \in PerPageValues : SetField("per_page", v)
    /\ UNCHANGED bag
    /\ OrdersFrame

\* ListOrdersBuilder::sort_column
list_sort_column ==
    /\ params.kind = "list"
    /\ bag = None
    /\ \E v \in TextValues : SetField("sort_column", v)
    /\ UNCHANGED bag
    /\ OrdersFrame

\* ListOrdersBuilder::direction
list_direction ==
    /\ params.kind = "list"
    /\ bag = None
    /\ \E v \in Directions : SetField("direction", v)
    /\ UNCHANGED bag
    /\ OrdersFrame

\* ListOrdersBuilder::in_production_after
list_in_production_after ==
    /\ params.kind = "list"
    /\ bag = None
    /\ \E v \in DateTimes : SetField("in_production_after", v)
    /\ UNCHANGED bag
    /\ OrdersFrame

\* ListOrdersBuilder::in_production_before
list_in_production_before ==
    /\ params.kind = "list"
    /\ bag = None
    /\ \E v \in DateTimes : SetField("in_production_before", v)
    /\ UNCHANGED bag
    /\ OrdersFrame

\* SearchOrdersBuilder::page
search_page ==
    /\ params.kind = "search"
    /\ bag = None
    /\ \E v \in PageValues : SetField("page", v)
    /\ UNCHANGED bag
    /\ OrdersFrame

\* SearchOrdersBuilder::per_page
search_per_page ==
    /\ params.kind = "search"
    /\ bag = None
    /\ \E v \in PerPageValues : SetField("per_page", v)
    /\ UNCHANGED bag
    /\ OrdersFrame

\* SearchOrdersBuilder::query
search_query ==
    /\ params.kind = "search"
    /\ bag = None
    /\ \E v \in TextValues : SetField("query", v)
    /\ UNCHANGED bag
    /\ OrdersFrame


\* ListOrdersBuilder::send: the builder is serialized as the query
list_send ==
    /\ params.kind = "list"
    /\ bag = None
    /\ bag' = Some(Serialize(params))
    /\ UNCHANGED << params, last_set >>
    /\ OrdersFrame

\* SearchOrdersBuilder::send
search_send ==
    /\ params.kind = "search"
    /\ bag = None
    /\ bag' = Some(Serialize(params))
    /\ UNCHANGED << params, last_set >>
    /\ OrdersFrame

NextOrders ==
    \/ orders_list
    \/ orders_search
    \/ list_page
    \/ list_per_page
    \/ list_sort_column
    \/ list_direction
    \/ list_in_production_after
    \/ list_in_production_before
    \/ search_page
    \/ search_per_page
    \/ search_query
    \/ list_send
    \/ search_send

\* C9: the bag a list / search builder sends has, for each field whose setter
\* was called, exactly one pair, with the value of the last call, and no pair
\* at all for a field whose setter was not called; with no setter called it
\* is empty.
C9_OmittedFields ==
    bag # None =>
        /\ \A i \in 1..Len(bag[1]) : bag[1][i][1] \in KeySet(params.kind)
        /\ \A k \in KeySet(params.kind) :
              IF last_set[k] = None
              THEN KeyCount(bag[1], k) = 0
              ELSE /\ KeyCount(bag[1], k) = 1
                   /\ ValuesOf(bag[1], k) = {Encode(k, last_set[k][1])}
        /\ (\A k \in KeySet(params.kind) : last_set[k] = None)
              => bag[1] = <<>>

C9_Witness ==
    /\ bag # None
    /\ params.kind = "list"
    /\ last_set["page"] = Some(2)
    /\ last_set["sort_column"] = None
    /\ last_set["in_production_after"] # None
    /\ Len(bag[1]) = 2
    /\ bag[1][1] = <<"page", "2">>

Init == InitExec /\ InitBuilder /\ InitPage /\ InitOrders

\* the request-execution engine
Next == NextExec

Spec == Init /\ [][Next]_vars

\* the client builder
SpecBuilder == Init /\ [][NextBuilder]_vars

\* the pagination envelope
SpecPage == Init /\ [][NextPage]_vars

\* the order parameter builders
SpecOrders == Init /\ [][NextOrders]_vars

=============================================================================
